---- MODULE Spec2Model ----
(***************************************************************************)
(* Model of the Rain Solana withdrawal client.                             *)
(*                                                                         *)
(*   - executeWithdrawal / submitCollateralSignature (withdraw.ts): the    *)
(*     flow of one invocation, one action per network call (await), with   *)
(*     several callers running it concurrently against one ledger.         *)
(*   - Ed25519ExtendedProgram.createSignatureVerificationInstruction and   *)
(*     SignatureStructure (utils/ed25519.program.ts): the byte-level       *)
(*     instruction-data builder.                                           *)
(*   - HashUtils, Collateral and Coordinator (utils/hashUtils.ts,          *)
(*     collateral.ts, coordinator.ts): the message codec, on hex strings.  *)
(*                                                                         *)
(* Buffers are sequences of bytes (0..255); offset o of a Buffer is index  *)
(* o + 1 of the sequence.  keccak-256 is a symbolic, collision-free term.  *)
(***************************************************************************)
EXTENDS Integers, Sequences, FiniteSets, TLC

\* ------------------------------------------------------------------ bounds
\* Number of concurrent invocations of executeWithdrawal.
NumCallers == 2
\* Largest admin-funds nonce the ledger reaches.
MaxNonce == 1
\* Longest list handed to createSignatureVerificationInstruction.
MaxEntries == 2
\* Longest list whose entry count is written into the instruction data.
MaxCount == 257
\* Number of invocations whose codec calls are followed.
MaxCalls == 2
\* Number of invocations followed to their end under fairness.
MaxInFlight == 1

\* ------------------------------------------------- ed25519.program.ts constants
INSTRUCTION_INDEX == 65535
SIGNATURE_STRUCTURE_SIZE == 14
PUBKEY_SIZE == 32
SIGNATURE_SIZE == 64
MESSAGE_SIZE == 32
SIGNATURE_DATA_SIZE == PUBKEY_SIZE + SIGNATURE_SIZE + MESSAGE_SIZE
SIGNATURE_DATA_PLUS_STRUCTURE_SIZE == SIGNATURE_STRUCTURE_SIZE + SIGNATURE_DATA_SIZE

VARIABLES
    \* ---- the request every caller submits (main()'s response.parameters)
    signatureData,             \* the coordinator signature
    \* ---- the ledger (shared by all callers)
    adminFundsNonce,           \* collateral account: admin-funds nonce
    executors,                 \* coordinator account: approver list
    signatureAccounts,         \* collateralAdminSignatures accounts, by address
    tokenAccountExists,        \* the recipient's associated token account
    \* ---- one invocation of executeWithdrawal per caller
    pc,                        \* position in the flow
    collateralAccount,         \* result of program.account.collateral.fetch
    collateralMessageSalt,     \* randomBytes(32) of submitCollateralSignature
    collateralSignatureAddress,\* the derived record address
    collateralSignatureAccount,\* what fetchNullable returned
    coordinator,               \* result of program.account.coordinator.fetch
    error,                     \* the error the invocation threw
    calls,                     \* network calls made, in order, with outcome
    submitted,                 \* transactions handed to sendAndConfirmTransaction
    \* ---- createSignatureVerificationInstruction, run on its own
    signatures,                \* the input list
    built,                     \* the outcome of the call
    \* ---- the message codec, run on its own
    fieldValues,               \* the field values handed to the codec
    digests                    \* what each call so far was given and returned

ledgerVars == <<adminFundsNonce, executors, signatureAccounts, tokenAccountExists>>
callerVars == <<pc, collateralAccount, collateralMessageSalt,
                collateralSignatureAddress, collateralSignatureAccount, coordinator, error,
                calls, submitted>>
builderVars == <<signatures, built>>
codecVars == <<fieldValues, digests>>
vars == <<signatureData, ledgerVars, callerVars, builderVars, codecVars>>

Callers == 1..NumCallers
Nonces == 0..MaxNonce

\* ------------------------------------------------------------ identities
\* The arguments main() passes; every caller submits for the same request.
ProgramId == "program"
Collateral == "collateral"
CoordinatorAddress == "coordinator"
Sender == "sender"
Recipient == "recipient"
Mint == "mint"
AmountInCents == 1000000
Expiration == 1763066371
\* Other keys that can appear on the ledger.
OtherAdmin == "otherAdmin"
Executor1 == "executor1"
Executor2 == "executor2"

Salts == {"saltA", "saltB"}
CoordinatorSalt == "coordinatorSalt"

\* len bytes, all different, starting after seed.
Bytes(len, seed) == [k \in 1..len |-> (seed + k) % 256]

\* PublicKey.toBuffer(): the 32 bytes of a key.
PublicKeyToBuffer(publicKey) ==
    Bytes(PUBKEY_SIZE, CASE publicKey = ProgramId -> 0
                         [] publicKey = Collateral -> 16
                         [] publicKey = CoordinatorAddress -> 32
                         [] publicKey = Sender -> 48
                         [] publicKey = Recipient -> 64
                         [] publicKey = Mint -> 80
                         [] publicKey = OtherAdmin -> 96
                         [] publicKey = Executor1 -> 112
                         [] OTHER -> 128)

\* The 32 bytes randomBytes(32) returned for a draw, and the bytes of the
\* salt the coordinator signed with.
SaltBytes(salt) ==
    Bytes(32, CASE salt = "saltA" -> 1 [] salt = "saltB" -> 2 [] OTHER -> 3)

\* ---------------------------------------------------------------- numbers
\* A bigint, BN or number is held as its base-65536 digits, most significant
\* first and without leading zeros, so that values of 2^32 and 2^64 exist.
RECURSIVE UInt(_)
UInt(n) == IF n = 0 THEN <<>> ELSE Append(UInt(n \div 65536), n % 65536)

\* 2^bits as such a value (bits a multiple of 16).
RECURSIVE Zeros(_)
Zeros(count) == IF count = 0 THEN <<>> ELSE <<0>> \o Zeros(count - 1)

TwoToThe(bits) == <<1>> \o Zeros(bits \div 16)

\* value < 2^bits
FitsIn(value, bits) == Len(value) <= bits \div 16

\* -------------------------------------------------------------- hashUtils.ts
\* A hex string is a string; the 64 hex characters of a hash are the term
\* keccak256Hex(pre-image) or keccak256(text), so that equal hashes have
\* equal pre-images (keccak-256 is collision-free).
Keccak256Hex(data) == "keccak256Hex(" \o data \o ")"

Keccak256(data) == "keccak256(" \o data \o ")"

EncodeStringIgnoringValue(value) == Keccak256("")

EncodeString(value) == Keccak256(value)

HexDigit(d) == SubSeq("0123456789abcdef", d + 1, d + 1)

\* n.toString(16) of one base-65536 digit or byte.
RECURSIVE NumberToString16(_)
NumberToString16(n) ==
    IF n < 16 THEN HexDigit(n) ELSE NumberToString16(n \div 16) \o HexDigit(n % 16)

\* str.padStart(targetLength, '0'): a string already that long is returned as is.
RECURSIVE PadStart(_, _)
PadStart(str, targetLength) ==
    IF Len(str) >= targetLength THEN str ELSE PadStart("0" \o str, targetLength)

RECURSIVE DigitsToString16(_)
DigitsToString16(digits) ==
    IF digits = <<>> THEN ""
    ELSE PadStart(NumberToString16(Head(digits)), 4) \o DigitsToString16(Tail(digits))

\* value.toString(16)
ToString16(value) ==
    IF value = <<>> THEN "0"
    ELSE NumberToString16(Head(value)) \o DigitsToString16(Tail(value))

EncodeUInt32(value) == PadStart(ToString16(value), 8)

EncodeUInt64(value) == PadStart(ToString16(value), 16)

RECURSIVE EncodeBytes(_)
EncodeBytes(value) ==
    IF value = <<>> THEN ""
    ELSE PadStart(NumberToString16(Head(value)), 2) \o EncodeBytes(Tail(value))

PublicKeys ==
    {ProgramId, Collateral, CoordinatorAddress, Sender, Recipient, Mint, OtherAdmin,
     Executor1, Executor2, "none"}

\* value.toBuffer().toString('hex') of every key, worked out once.
AddressesInHex == [value \in PublicKeys |-> EncodeBytes(PublicKeyToBuffer(value))]

EncodeAddress(value) == AddressesInHex[value]

\* --------------------------------------------------------------- collateral.ts
\* Collateral.encode(): the bytes 0x19 0x01.
CollateralEncode == EncodeBytes(<<25, 1>>)

Collateral_DOMAIN_TYPE_HASH ==
    EncodeString("EIP712Domain(string name,string version,uint256 chainId,address verifyingContract,bytes32 salt)")

CollateralDomainSeparatorEncode(name, version, chainId, verifyingContract, salt) ==
    Keccak256Hex(Collateral_DOMAIN_TYPE_HASH \o EncodeString(name)
                 \o EncodeString(version) \o EncodeUInt64(chainId)
                 \o EncodeAddress(verifyingContract) \o EncodeBytes(salt))

COLLATERAL_ADMIN_SIGNATURE_SEED == "CollateralAdminSignatures"

Collateral_WITHDRAW_TYPE_HASH ==
    EncodeString("Withdraw(address user,address asset,uint256 amount,address recipient,uint256 nonce)")

\* Collateral.generateAdminSignaturePDA: PublicKey.findProgramAddressSync of
\* the seeds under the program, as a collision-free term.
GenerateAdminSignaturePDA(collateral, id, programId) ==
    [program |-> programId, seed |-> COLLATERAL_ADMIN_SIGNATURE_SEED,
     collateral |-> collateral, id |-> id]

\* Collateral.encodeWithdrawMessage: the custody struct hash.
CollateralEncodeWithdrawMessage(collateral, sender, receiver, asset, withdraw, nonce) ==
    Keccak256Hex(Collateral_WITHDRAW_TYPE_HASH \o EncodeAddress(sender)
                 \o EncodeAddress(collateral) \o EncodeAddress(asset)
                 \o EncodeUInt64(withdraw.amountOfAsset) \o EncodeAddress(receiver)
                 \o EncodeUInt32(nonce))

\* Collateral.getWithdrawMessage: the custody final digest.
CollateralGetWithdrawMessage(collateral, sender, receiver, asset, withdraw, salt, nonce) ==
    Keccak256Hex(CollateralEncode
                 \o CollateralDomainSeparatorEncode("Collateral", "2", UInt(900),
                                                    collateral, salt)
                 \o CollateralEncodeWithdrawMessage(collateral, sender, receiver, asset,
                                                    withdraw, nonce))

GenerateWithdrawCollateralPDAFromDigest(collateral, sender, receiver, asset, withdraw, nonce, programId) ==
    GenerateAdminSignaturePDA(collateral,
        CollateralGetWithdrawMessage(collateral, sender, receiver, asset, withdraw,
                                     withdraw.coordinatorSignatureSalt, nonce),
        programId)

\* Collateral.generateWithdrawCollateralPDA: the approval-record address.
GenerateWithdrawCollateralPDA(collateral, sender, receiver, asset, withdraw, nonce, programId) ==
    GenerateAdminSignaturePDA(collateral,
        CollateralEncodeWithdrawMessage(collateral, sender, receiver, asset, withdraw,
                                        nonce),
        programId)

\* -------------------------------------------------------------- coordinator.ts
CoordinatorEncode == EncodeBytes(<<25, 1>>)

Coordinator_DOMAIN_TYPE_HASH ==
    EncodeString("EIP712Domain(string name,string version,uint256 chainId,address verifyingContract,bytes32 salt)")

CoordinatorDomainSeparatorEncode(name, version, chainId, verifyingContract, salt) ==
    Keccak256Hex(Coordinator_DOMAIN_TYPE_HASH \o EncodeString(name)
                 \o EncodeString(version) \o EncodeUInt64(chainId)
                 \o EncodeAddress(verifyingContract) \o EncodeBytes(salt))

Coordinator_WITHDRAW_TYPE_HASH ==
    EncodeString("Withdraw(address user,address collateral,address asset,uint256 amount,address recipient,uint256 nonce,uint256 expiresAt)")

\* Coordinator.encodeWithdrawMessage: the coordinator struct hash.
CoordinatorEncodeWithdrawMessage(collateral, sender, receiver, asset, withdraw, nonce) ==
    Keccak256Hex(Coordinator_WITHDRAW_TYPE_HASH \o EncodeAddress(sender)
                 \o EncodeAddress(collateral) \o EncodeAddress(asset)
                 \o EncodeUInt64(withdraw.amountOfAsset) \o EncodeAddress(receiver)
                 \o EncodeUInt32(nonce)
                 \o EncodeUInt64(withdraw.signatureExpirationTime))

CoordinatorGetWithdrawMessageAsCustody(collateral, coord, sender, receiver, asset, withdraw, nonce) ==
    CollateralGetWithdrawMessage(coord, sender, receiver, asset, withdraw,
                                 withdraw.coordinatorSignatureSalt, nonce)

\* Coordinator.getWithdrawMessage: the coordinator final digest.
CoordinatorGetWithdrawMessage(collateral, coord, sender, receiver, asset, withdraw, nonce) ==
    Keccak256Hex(CoordinatorEncode
                 \o CoordinatorDomainSeparatorEncode("Coordinator", "2", UInt(900), coord,
                                                     withdraw.coordinatorSignatureSalt)
                 \o CoordinatorEncodeWithdrawMessage(collateral, sender, receiver, asset,
                                                     withdraw, nonce))

\* ------------------------------------------------------------------ withdraw.ts
\* The codec has been handed nothing.
NoFieldValues ==
    [sender |-> "none", receiver |-> "none", asset |-> "none",
     amountOfAsset |-> <<>>, signatureExpirationTime |-> <<>>,
     coordinatorSignatureSalt |-> <<>>, salt |-> <<>>, nonce |-> <<>>,
     verifyingContract |-> "none"]

\* executeWithdrawal's withdrawRequest, from the arguments main() passes.
WithdrawRequest ==
    [amountOfAsset |-> UInt(AmountInCents),
     signatureExpirationTime |-> UInt(Expiration),
     coordinatorSignatureSalt |-> SaltBytes(CoordinatorSalt)]

\* What the codec returns for the request at each nonce and salt, worked out
\* once: the record address, the custody and the coordinator final digest.
RecordAddresses ==
    [n \in Nonces |->
        GenerateWithdrawCollateralPDA(Collateral, Sender, Recipient, Mint,
                                      WithdrawRequest, UInt(n), ProgramId)]

CollateralMessages ==
    [salt \in Salts, n \in Nonces |->
        CollateralGetWithdrawMessage(Collateral, Sender, Recipient, Mint,
                                     WithdrawRequest, SaltBytes(salt), UInt(n))]

CoordinatorMessages ==
    [n \in Nonces |->
        CoordinatorGetWithdrawMessage(Collateral, CoordinatorAddress, Sender, Recipient,
                                      Mint, WithdrawRequest, UInt(n))]

\* The record address an invocation that read nonce n derives.
AddressOf(n) == RecordAddresses[n]

Addresses == {AddressOf(n) : n \in Nonces}

\* ------------------------------------------------- SignatureInstructionBuilder
\* The size checks of createSignatureVerificationInstruction's loop body.
EntrySizeError(signatureLength, messageLength) ==
    IF signatureLength # SIGNATURE_SIZE THEN "SignatureSize"
    ELSE IF messageLength # MESSAGE_SIZE THEN "MessageSize"
    ELSE "none"

\* An instruction of a transaction.
Instruction(programId, name, entries, accounts, recordAddress, args) ==
    [programId |-> programId, name |-> name, entries |-> entries,
     accounts |-> accounts, recordAddress |-> recordAddress, args |-> args]

\* createSignatureVerificationInstruction as executeWithdrawal sees it: the
\* first wrong-sized entry throws, otherwise the instruction carries the
\* entries (the bytes of its data are BuildInstructionData below).
RECURSIVE FirstSizeError(_, _)
FirstSizeError(entries, i) ==
    IF i > Len(entries) THEN "none"
    ELSE LET e == EntrySizeError(entries[i].signature.len, entries[i].message.len)
         IN  IF e # "none" THEN e ELSE FirstSizeError(entries, i + 1)

VerificationInstruction(entries) ==
    Instruction("Ed25519SigVerify", "verify", entries, {}, {}, <<>>)

\* ------------------------------------------ Buffer (node) as a byte sequence
\* Buffer.alloc(size): zero-filled.
Alloc(size) == [k \in 1..size |-> 0]

\* source.copy(target, targetStart): bytes past the end of target are dropped.
Copy(source, target, targetStart) ==
    [k \in 1..Len(target) |->
        IF k > targetStart /\ k <= targetStart + Len(source)
        THEN source[k - targetStart] ELSE target[k]]

\* buffer.writeUInt8(value, offset): the store keeps one byte of the value.
WriteUInt8(buffer, value, offset) == [buffer EXCEPT ![offset + 1] = value % 256]

UInt8NeverOutOfRange(value) == FALSE

\* The range check of buffer.writeUInt8: a value outside 0..255 is rejected
\* with a RangeError before the byte is stored.
UInt8OutOfRange(value) == value < 0 \/ value > 255

\* buffer.writeUInt16LE(value, offset): low byte first.
WriteUInt16LE(buffer, value, offset) ==
    [buffer EXCEPT ![offset + 1] = value % 256, ![offset + 2] = value \div 256]

SignatureStructurePacked(signatureIndex, signaturesStartOffset) ==
    LET publicKeyOffset == signatureIndex * SIGNATURE_SIZE + signaturesStartOffset
        signatureOffset == publicKeyOffset + 32
    IN  [structureOffset |-> signatureIndex * SIGNATURE_STRUCTURE_SIZE + 2,
         publicKeyOffset |-> publicKeyOffset,
         signatureOffset |-> signatureOffset,
         messageOffset |-> signatureOffset + 64]

\* new SignatureStructure(signatureIndex, signaturesStartOffset)
SignatureStructure(signatureIndex, signaturesStartOffset) ==
    LET publicKeyOffset == signatureIndex * SIGNATURE_DATA_SIZE + signaturesStartOffset
        signatureOffset == publicKeyOffset + 32
    IN  [structureOffset |-> signatureIndex * SIGNATURE_STRUCTURE_SIZE + 2,
         publicKeyOffset |-> publicKeyOffset,
         signatureOffset |-> signatureOffset,
         messageOffset |-> signatureOffset + 64]

\* A descriptor whose first and third fields are exchanged.
ToBufferSwapped(structure) ==
    LET b0 == Alloc(SIGNATURE_STRUCTURE_SIZE)
        b1 == WriteUInt16LE(b0, structure.publicKeyOffset, 0)
        b2 == WriteUInt16LE(b1, INSTRUCTION_INDEX, 2)
        b3 == WriteUInt16LE(b2, structure.signatureOffset, 4)
        b4 == WriteUInt16LE(b3, INSTRUCTION_INDEX, 6)
        b5 == WriteUInt16LE(b4, structure.messageOffset, 8)
        b6 == WriteUInt16LE(b5, MESSAGE_SIZE, 10)
    IN  WriteUInt16LE(b6, INSTRUCTION_INDEX, 12)

\* SignatureStructure.toBuffer()
ToBuffer(structure) ==
    LET b0 == Alloc(SIGNATURE_STRUCTURE_SIZE)
        b1 == WriteUInt16LE(b0, structure.signatureOffset, 0)
        b2 == WriteUInt16LE(b1, INSTRUCTION_INDEX, 2)
        b3 == WriteUInt16LE(b2, structure.publicKeyOffset, 4)
        b4 == WriteUInt16LE(b3, INSTRUCTION_INDEX, 6)
        b5 == WriteUInt16LE(b4, structure.messageOffset, 8)
        b6 == WriteUInt16LE(b5, MESSAGE_SIZE, 10)
    IN  WriteUInt16LE(b6, INSTRUCTION_INDEX, 12)

\* The outcome of createSignatureVerificationInstruction: the instruction's
\* data, or the error thrown and the local dataBuffer as the throw leaves it.
Built(threw, err, dataBuffer) ==
    [called |-> TRUE, threw |-> threw, error |-> err, data |-> dataBuffer]

\* The for loop of createSignatureVerificationInstruction, from entry i on.
RECURSIVE WriteSignatures(_, _, _, _)
WriteSignatures(sigs, i, dataBuffer, signaturesStartOffset) ==
    IF i >= Len(sigs) THEN Built(FALSE, "none", dataBuffer)
    ELSE LET entry == sigs[i + 1]
             sizeError == EntrySizeError(Len(entry.signature), Len(entry.message))
             signatureOffset == SignatureStructure(i, signaturesStartOffset)
             d1 == Copy(ToBuffer(signatureOffset), dataBuffer,
                        signatureOffset.structureOffset)
             d2 == Copy(entry.signer, d1, signatureOffset.publicKeyOffset)
             d3 == Copy(entry.signature, d2, signatureOffset.signatureOffset)
             d4 == Copy(entry.message, d3, signatureOffset.messageOffset)
         IN  IF sizeError # "none" THEN Built(TRUE, sizeError, dataBuffer)
             ELSE WriteSignatures(sigs, i + 1, d4, signaturesStartOffset)

\* The head of createSignatureVerificationInstruction, before its loop: the
\* buffer is allocated for count entries and the count goes into byte 0.
WriteCount(count) ==
    LET dataBuffer == Alloc(count * SIGNATURE_DATA_PLUS_STRUCTURE_SIZE + 2)
    IN  IF UInt8OutOfRange(count) THEN Built(TRUE, "RangeError", dataBuffer)
        ELSE Built(FALSE, "none", WriteUInt8(dataBuffer, count, 0))

\* Ed25519ExtendedProgram.createSignatureVerificationInstruction(signatures)
CreateSignatureVerificationInstruction(sigs) ==
    LET header == WriteCount(Len(sigs))
        signaturesStartOffset == Len(sigs) * SIGNATURE_STRUCTURE_SIZE + 2
    IN  IF header.threw THEN header
        ELSE WriteSignatures(sigs, 0, header.data, signaturesStartOffset)

\* The entries the builder is run on: well-formed ones, and ones whose
\* signature or message is one byte short or long.
BuilderEntries ==
    [signer : {Bytes(PUBKEY_SIZE, 0), Bytes(PUBKEY_SIZE, 16)},
     signature : {Bytes(SIGNATURE_SIZE, 100), Bytes(SIGNATURE_SIZE - 1, 100),
                  Bytes(SIGNATURE_SIZE + 1, 40)},
     message : {Bytes(MESSAGE_SIZE, 200), Bytes(MESSAGE_SIZE - 1, 200)}]

RECURSIVE ListsUpTo(_)
ListsUpTo(n) ==
    IF n = 0 THEN {<<>>}
    ELSE LET shorter == ListsUpTo(n - 1)
         IN  shorter \cup {Append(l, e) : l \in {x \in shorter : Len(x) = n - 1},
                                          e \in BuilderEntries}

NotBuilt == [called |-> FALSE, threw |-> FALSE, error |-> "none", data |-> <<>>]

\* --------------------------------------------------------------- the ledger
\* A collateralAdminSignatures account that does not exist (fetchNullable: null).
NoSignatureAccount == [exists |-> FALSE, signers |-> {}]

\* The account after a confirmed submitSignatures transaction of signer.
RecordApproval(account, signer) ==
    [exists |-> TRUE, signers |-> account.signers \cup {signer}]

\* The ledger the callers start from: no admin has approved the withdrawal at
\* the current nonce, another admin has approved the ones at later nonces.
InitialSignatureAccount(address) ==
    IF address = AddressOf(0) THEN NoSignatureAccount
    ELSE [exists |-> TRUE, signers |-> {OtherAdmin}]

ExecutorLists == {<<>>, <<Executor2, Executor1>>}

\* ------------------------------------------------------ executeWithdrawal
Transaction(kind, instructions, outcome) ==
    [kind |-> kind, instructions |-> instructions, signers |-> <<Sender>>,
     outcome |-> outcome]

Call(step, ok) == [step |-> step, ok |-> ok]

\* nacl.sign.detached(message, sender.secretKey): always SIGNATURE_SIZE bytes.
SignDetached(message, key) == [len |-> SIGNATURE_SIZE, signedBy |-> key, over |-> message]

\* Buffer.from(encodedDataHash, 'hex') of a keccak-256 digest: always 32 bytes.
DigestBuffer(digest) == [len |-> MESSAGE_SIZE, digest |-> digest]

\* The coordinator signatures the external signing service can hand to main():
\* of the right or of a wrong length, made by one of the approvers.
SignatureInputs ==
    {[len |-> l, signedBy |-> k,
      over |-> CoordinatorMessages[0]] :
        l \in {SIGNATURE_SIZE - 1, SIGNATURE_SIZE}, k \in {Executor1}}

NoCollateralAccount == [adminFundsNonce |-> 0, coordinator |-> "none"]
NotFetched == [fetched |-> FALSE, exists |-> FALSE, signers |-> {}]
NoCoordinator == [fetched |-> FALSE, hasExecutors |-> FALSE, executors |-> <<>>]

\* withdraw.ts line 173: the approval has to be submitted.
ApprovalMissingAlways(account, sender) == TRUE
ApprovalMissing(account, sender) ==
    ~account.exists \/ \A signer \in account.signers : signer # sender

\* withdraw.ts lines 202-212: sendAndConfirmTransaction rejects on any failure
\* and nothing catches it, so only a confirmed approval reaches the return.
AfterApprovalIgnoringFailure(outcome) == "fetchCoordinator"
AfterApproval(outcome) ==
    IF outcome = "confirmed" THEN "fetchCoordinator" ELSE "failed"

\* withdraw.ts lines 276-315: the await rejects unless the combined
\* transaction is confirmed, and only then is its identifier returned.
AfterWithdrawalAlwaysConfirmed(outcome) == "confirmed"
AfterWithdrawalRetry(outcome) ==
    IF outcome = "confirmed" THEN "confirmed" ELSE "sendWithdrawal"
AfterWithdrawal(outcome) ==
    IF outcome = "confirmed" THEN "confirmed" ELSE "failed"

\* withdraw.ts line 272: the coordinator has no approver.
NoExecutorsNever(account) == FALSE
NoExecutors(account) == ~account.hasExecutors \/ Len(account.executors) = 0

LastExecutor(account) == account.executors[Len(account.executors)]

\* withdraw.ts line 282: coordinator.executors.find(c => c)!
FirstExecutor(account) == account.executors[1]

\* withdraw.ts lines 278-309: new Transaction().add(verification, withdrawal).
FinalInstructionsWithoutVerification(verification, withdrawal) == <<withdrawal>>
FinalInstructions(verification, withdrawal) == <<verification, withdrawal>>

Init ==
    /\ signatureData \in SignatureInputs
    /\ adminFundsNonce = 0
    /\ executors \in {[present |-> FALSE, list |-> <<>>]}
                       \cup [present : {TRUE}, list : ExecutorLists]
    /\ signatureAccounts = [x \in Addresses |-> InitialSignatureAccount(x)]
    /\ tokenAccountExists = FALSE
    /\ pc = [p \in Callers |-> "start"]
    /\ collateralAccount = [p \in Callers |-> NoCollateralAccount]
    /\ collateralMessageSalt = [p \in Callers |-> "none"]
    /\ collateralSignatureAddress = [p \in Callers |-> AddressOf(0)]
    /\ collateralSignatureAccount = [p \in Callers |-> NotFetched]
    /\ coordinator = [p \in Callers |-> NoCoordinator]
    /\ error = [p \in Callers |-> "none"]
    /\ calls = [p \in Callers |-> <<>>]
    /\ submitted = [p \in Callers |-> <<>>]
    /\ signatures = <<>>
    /\ built = NotBuilt
    /\ fieldValues = NoFieldValues
    /\ digests = <<>>

\* The error is recorded and the step is left to run again.
ThrowAndRetry(p, e) ==
    /\ pc' = pc
    /\ error' = [error EXCEPT ![p] = e]

\* The invocation of p throws e: nothing in executeWithdrawal catches.
Throw(p, e) ==
    /\ pc' = [pc EXCEPT ![p] = "failed"]
    /\ error' = [error EXCEPT ![p] = e]

\* lines 228-240: the inputs are unpacked and the collateral account fetched.
\* The callers are numbered in the order in which they make this first call.
FetchCollateral(p) ==
    /\ pc[p] = "start"
    /\ \A q \in Callers : q < p => pc[q] # "start"
    /\ \/ /\ calls' = [calls EXCEPT ![p] = Append(@, Call("fetchCollateral", TRUE))]
          /\ collateralAccount' = [collateralAccount EXCEPT ![p] =
                 [adminFundsNonce |-> adminFundsNonce, coordinator |-> CoordinatorAddress]]
          /\ pc' = [pc EXCEPT ![p] = "getTokenAccount"]
          /\ UNCHANGED error
       \/ /\ calls' = [calls EXCEPT ![p] = Append(@, Call("fetchCollateral", FALSE))]
          /\ Throw(p, "TransportFailure")
          /\ UNCHANGED collateralAccount
    /\ UNCHANGED <<ledgerVars, builderVars, codecVars, signatureData, collateralMessageSalt,
                   collateralSignatureAddress, collateralSignatureAccount,
                   coordinator, submitted>>

TokenAccountMissingAlways(exists) == TRUE

\* getOrCreateAssociatedTokenAccount creates the account when fetching it
\* finds none.
TokenAccountMissing(exists) == ~exists

\* lines 243-257: getAssociatedTokenAddress, getOrCreateAssociatedTokenAccount
GetOrCreateTokenAccount(p) ==
    /\ pc[p] = "getTokenAccount"
    /\ \/ /\ ~TokenAccountMissing(tokenAccountExists)
          /\ calls' = [calls EXCEPT ![p] = Append(@, Call("getTokenAccount", TRUE))]
          /\ pc' = [pc EXCEPT ![p] = "fetchSignatures"]
          /\ UNCHANGED <<tokenAccountExists, submitted, error>>
       \/ /\ TokenAccountMissing(tokenAccountExists)
          /\ calls' = [calls EXCEPT ![p] = Append(@, Call("createTokenAccount", TRUE))]
          /\ submitted' = [submitted EXCEPT ![p] = Append(@,
                 Transaction("createTokenAccount",
                     <<Instruction("AssociatedToken", "create", <<>>,
                                   {Sender, Recipient, Mint}, {}, <<>>)>>, "confirmed"))]
          /\ tokenAccountExists' = TRUE
          /\ pc' = [pc EXCEPT ![p] = "fetchSignatures"]
          /\ UNCHANGED error
       \/ /\ calls' = [calls EXCEPT ![p] = Append(@, Call("getTokenAccount", FALSE))]
          /\ Throw(p, "TransportFailure")
          /\ UNCHANGED <<tokenAccountExists, submitted>>
    /\ UNCHANGED <<adminFundsNonce, executors, signatureAccounts, builderVars, codecVars,
                   signatureData, collateralAccount, collateralMessageSalt,
                   collateralSignatureAddress, collateralSignatureAccount, coordinator>>

CollateralEntryOtherSalt(p, salt) ==
    LET collateralMessage ==
            CollateralMessages[CHOOSE other \in Salts : other # salt,
                               collateralAccount[p].adminFundsNonce]
    IN  [signer |-> Sender,
         signature |-> SignDetached(collateralMessage, Sender),
         message |-> DigestBuffer(collateralMessage)]

\* The entry submitCollateralSignature builds (lines 150-160, 175-179).
CollateralEntry(p, salt) ==
    LET collateralMessage ==
            CollateralMessages[salt, collateralAccount[p].adminFundsNonce]
    IN  [signer |-> Sender,
         signature |-> SignDetached(collateralMessage, Sender),
         message |-> DigestBuffer(collateralMessage)]

CoordinatorEntryLedgerNonce(p) ==
    [signer |-> FirstExecutor(coordinator[p]),
     signature |-> signatureData,
     message |-> DigestBuffer(CoordinatorMessages[adminFundsNonce])]

\* The entry executeWithdrawal builds for the coordinator (lines 281-294).
CoordinatorEntry(p) ==
    [signer |-> FirstExecutor(coordinator[p]),
     signature |-> signatureData,
     message |-> DigestBuffer(CoordinatorMessages[collateralAccount[p].adminFundsNonce])]

\* program.methods.submitSignatures(...) of lines 182-199.
SubmitSignaturesInstruction(p, salt) ==
    Instruction("Main", "submitSignatures", <<>>,
                {Collateral, Sender}, {collateralSignatureAddress[p]},
                <<salt,
                  ToString(collateralAccount[p].adminFundsNonce)>>)

\* program.methods.withdrawCollateralAsset(...) of lines 297-308.
WithdrawInstruction(p) ==
    Instruction("Main", "withdrawCollateralAsset", <<>>,
                {Sender, Recipient, Mint, collateralAccount[p].coordinator, Collateral},
                {collateralSignatureAddress[p]},
                <<ToString(AmountInCents), ToString(Expiration), CoordinatorSalt>>)

\* submitCollateralSignature, lines 149-173: the salt is drawn, the record
\* address derived and the record fetched.
FetchSignatures(p) ==
    /\ pc[p] = "fetchSignatures"
    /\ LET address == AddressOf(collateralAccount[p].adminFundsNonce)
           account == signatureAccounts[address]
       IN  /\ collateralSignatureAddress' =
                  [collateralSignatureAddress EXCEPT ![p] = address]
           /\ \/ /\ calls' = [calls EXCEPT ![p] = Append(@, Call("fetchSignatures", TRUE))]
                 /\ collateralSignatureAccount' = [collateralSignatureAccount EXCEPT ![p] =
                        [fetched |-> TRUE, exists |-> account.exists,
                         signers |-> account.signers]]
                 /\ pc' = [pc EXCEPT ![p] =
                        IF ApprovalMissing(account, Sender) THEN "submitSignatures"
                        ELSE "fetchCoordinator"]
                 /\ UNCHANGED error
              \/ /\ calls' = [calls EXCEPT ![p] = Append(@, Call("fetchSignatures", FALSE))]
                 /\ Throw(p, "TransportFailure")
                 /\ UNCHANGED collateralSignatureAccount
    /\ UNCHANGED <<ledgerVars, builderVars, codecVars, signatureData, collateralAccount,
                   collateralMessageSalt, coordinator, submitted>>

\* The outcomes the ledger can give a submitSignatures transaction: it is
\* confirmed, the transport fails, or the program rejects it because the
\* record already lists the signer.
ApprovalOutcomes(account) ==
    {"confirmed", "TransportFailure"}
        \cup (IF Sender \in account.signers THEN {"DuplicateApproval"} ELSE {})

\* submitCollateralSignature, lines 175-210: the approval is built and sent.
\* The salt of line 149 is read here for the first time, so it is drawn here.
SubmitSignatures(p) ==
    /\ pc[p] = "submitSignatures"
    /\ \E salt \in Salts :
       LET address == collateralSignatureAddress[p]
           entries == <<CollateralEntry(p, salt)>>
           sizeError == FirstSizeError(entries, 1)
       IN  /\ collateralMessageSalt' = [collateralMessageSalt EXCEPT ![p] = salt]
           /\ IF sizeError # "none"
              THEN /\ Throw(p, sizeError)
                   /\ UNCHANGED <<calls, submitted, signatureAccounts>>
              ELSE \E outcome \in ApprovalOutcomes(signatureAccounts[address]) :
                   /\ calls' = [calls EXCEPT ![p] =
                          Append(@, Call("submitSignatures", outcome = "confirmed"))]
                   /\ submitted' = [submitted EXCEPT ![p] = Append(@,
                          Transaction("submitSignatures",
                              <<VerificationInstruction(entries),
                                SubmitSignaturesInstruction(p, salt)>>, outcome))]
                   /\ signatureAccounts' =
                          IF outcome = "confirmed"
                          THEN [signatureAccounts EXCEPT
                                    ![address] = RecordApproval(@, Sender)]
                          ELSE signatureAccounts
                   /\ pc' = [pc EXCEPT ![p] = AfterApproval(outcome)]
                   /\ error' = [error EXCEPT ![p] =
                          IF AfterApproval(outcome) = "failed" THEN outcome ELSE @]
    /\ UNCHANGED <<adminFundsNonce, executors, tokenAccountExists, builderVars, codecVars,
                   signatureData, collateralAccount,
                   collateralSignatureAddress, collateralSignatureAccount, coordinator>>

\* lines 271-274: the coordinator is fetched and its approver list checked.
FetchCoordinator(p) ==
    /\ pc[p] = "fetchCoordinator"
    /\ \/ LET account == [fetched |-> TRUE, hasExecutors |-> executors.present,
                          executors |-> executors.list]
          IN  /\ calls' = [calls EXCEPT ![p] = Append(@, Call("fetchCoordinator", TRUE))]
              /\ coordinator' = [coordinator EXCEPT ![p] = account]
              /\ IF NoExecutors(account)
                 THEN Throw(p, "NoExecutors")
                 ELSE /\ pc' = [pc EXCEPT ![p] = "sendWithdrawal"]
                      /\ UNCHANGED error
       \/ /\ calls' = [calls EXCEPT ![p] = Append(@, Call("fetchCoordinator", FALSE))]
          /\ Throw(p, "TransportFailure")
          /\ UNCHANGED coordinator
    /\ UNCHANGED <<ledgerVars, builderVars, codecVars, signatureData, collateralAccount,
                   collateralMessageSalt, collateralSignatureAddress,
                   collateralSignatureAccount, submitted>>

\* lines 276-315: the combined transaction is built, sent and confirmed.
SendWithdrawal(p) ==
    /\ pc[p] = "sendWithdrawal"
    /\ IF Len(coordinator[p].executors) = 0
       THEN \* executors.find(...)! is undefined: signer.toBuffer() throws
            /\ Throw(p, "TypeError")
            /\ UNCHANGED <<calls, submitted>>
       ELSE LET entries == <<CoordinatorEntry(p)>>
                sizeError == FirstSizeError(entries, 1)
            IN  IF sizeError # "none"
                THEN /\ Throw(p, sizeError)
                     /\ UNCHANGED <<calls, submitted>>
                ELSE \E outcome \in {"confirmed", "TransportFailure"} :
                     /\ calls' = [calls EXCEPT ![p] =
                            Append(@, Call("sendWithdrawal", outcome = "confirmed"))]
                     /\ submitted' = [submitted EXCEPT ![p] = Append(@,
                            Transaction("withdraw",
                                FinalInstructions(VerificationInstruction(entries),
                                                  WithdrawInstruction(p)), outcome))]
                     /\ pc' = [pc EXCEPT ![p] = AfterWithdrawal(outcome)]
                     /\ error' = [error EXCEPT ![p] =
                            IF AfterWithdrawal(outcome) = "failed" THEN outcome ELSE @]
    /\ UNCHANGED <<ledgerVars, builderVars, codecVars, signatureData, collateralAccount,
                   collateralMessageSalt, collateralSignatureAddress,
                   collateralSignatureAccount, coordinator>>

\* Another withdrawal of the same collateral account advances the nonce.
NonceAdvances ==
    /\ adminFundsNonce < MaxNonce
    /\ adminFundsNonce' = adminFundsNonce + 1
    /\ UNCHANGED <<signatureData, executors, signatureAccounts, tokenAccountExists,
                   callerVars, builderVars, codecVars>>

Next ==
    \/ \E p \in Callers : FetchCollateral(p)
    \/ \E p \in Callers : GetOrCreateTokenAccount(p)
    \/ \E p \in Callers : FetchSignatures(p)
    \/ \E p \in Callers : SubmitSignatures(p)
    \/ \E p \in Callers : FetchCoordinator(p)
    \/ \E p \in Callers : SendWithdrawal(p)
    \/ NonceAdvances

Spec == Init /\ [][Next]_vars

\* The steps of one invocation: each is one awaited network call.
Invocation(p) ==
    \/ FetchCollateral(p)
    \/ GetOrCreateTokenAccount(p)
    \/ FetchSignatures(p)
    \/ SubmitSignatures(p)
    \/ FetchCoordinator(p)
    \/ SendWithdrawal(p)

\* The invocations in flight; the callers beyond them never call.
InFlight == 1..MaxInFlight

NextFair ==
    \/ \E p \in InFlight : FetchCollateral(p)
    \/ \E p \in InFlight : GetOrCreateTokenAccount(p)
    \/ \E p \in InFlight : FetchSignatures(p)
    \/ \E p \in InFlight : SubmitSignatures(p)
    \/ \E p \in InFlight : FetchCoordinator(p)
    \/ \E p \in InFlight : SendWithdrawal(p)
    \/ NonceAdvances

\* Every network call an invocation awaits returns a result or an error.
SpecFair == Init /\ [][NextFair]_vars /\ \A p \in InFlight : WF_vars(Invocation(p))

\* -------------------------------- createSignatureVerificationInstruction alone
InitBuilder ==
    /\ signatures \in ListsUpTo(MaxEntries)
    /\ built = NotBuilt
    /\ signatureData = [len |-> SIGNATURE_SIZE, signedBy |-> Executor1,
                        over |-> CoordinatorMessages[0]]
    /\ adminFundsNonce = 0
    /\ executors = [present |-> TRUE, list |-> <<Executor2, Executor1>>]
    /\ signatureAccounts = [x \in Addresses |-> InitialSignatureAccount(x)]
    /\ tokenAccountExists = FALSE
    /\ pc = [p \in Callers |-> "start"]
    /\ collateralAccount = [p \in Callers |-> NoCollateralAccount]
    /\ collateralMessageSalt = [p \in Callers |-> "none"]
    /\ collateralSignatureAddress = [p \in Callers |-> AddressOf(0)]
    /\ collateralSignatureAccount = [p \in Callers |-> NotFetched]
    /\ coordinator = [p \in Callers |-> NoCoordinator]
    /\ error = [p \in Callers |-> "none"]
    /\ calls = [p \in Callers |-> <<>>]
    /\ submitted = [p \in Callers |-> <<>>]
    /\ fieldValues = NoFieldValues
    /\ digests = <<>>

\* One call of createSignatureVerificationInstruction(signatures).
CreateInstruction ==
    /\ ~built.called
    /\ built' = CreateSignatureVerificationInstruction(signatures)
    /\ UNCHANGED <<signatures, signatureData, ledgerVars, callerVars, codecVars>>

NextBuilder == CreateInstruction

SpecBuilder == InitBuilder /\ [][NextBuilder]_vars

\* ------------------------------------------------ the entry count, on its own
\* No invocation of executeWithdrawal is running.
NoInvocation ==
    /\ signatureData = [len |-> SIGNATURE_SIZE, signedBy |-> Executor1,
                        over |-> CoordinatorMessages[0]]
    /\ adminFundsNonce = 0
    /\ executors = [present |-> TRUE, list |-> <<Executor2, Executor1>>]
    /\ signatureAccounts = [x \in Addresses |-> InitialSignatureAccount(x)]
    /\ tokenAccountExists = FALSE
    /\ pc = [p \in Callers |-> "start"]
    /\ collateralAccount = [p \in Callers |-> NoCollateralAccount]
    /\ collateralMessageSalt = [p \in Callers |-> "none"]
    /\ collateralSignatureAddress = [p \in Callers |-> AddressOf(0)]
    /\ collateralSignatureAccount = [p \in Callers |-> NotFetched]
    /\ coordinator = [p \in Callers |-> NoCoordinator]
    /\ error = [p \in Callers |-> "none"]
    /\ calls = [p \in Callers |-> <<>>]
    /\ submitted = [p \in Callers |-> <<>>]

\* A well-formed entry.
ValidEntry ==
    [signer |-> Bytes(PUBKEY_SIZE, 0), signature |-> Bytes(SIGNATURE_SIZE, 100),
     message |-> Bytes(MESSAGE_SIZE, 200)]

\* Lists of every length up to MaxCount, of well-formed entries.
InitCount ==
    /\ signatures \in {[k \in 1..n |-> ValidEntry] : n \in 0..MaxCount}
    /\ built = NotBuilt
    /\ fieldValues = NoFieldValues
    /\ digests = <<>>
    /\ NoInvocation

\* createSignatureVerificationInstruction(signatures) up to its loop: the
\* allocation and the write of signatures.length.
WriteEntryCount ==
    /\ ~built.called
    /\ built' = WriteCount(Len(signatures))
    /\ UNCHANGED <<signatures, signatureData, ledgerVars, callerVars, codecVars>>

NextCount == WriteEntryCount

SpecCount == InitCount /\ [][NextCount]_vars

\* ------------------------------------------------ the message codec, on its own
\* Largest values of the two widths.
MaxUInt32 == <<65535, 65535>>
MaxUInt64 == <<65535, 65535, 65535, 65535>>

\* The field values the codec is run on: in range, at the top of the range
\* and one past it; salts of 32 bytes, one byte short and one byte long.
FieldValueSets ==
    [sender : {Sender}, receiver : {Recipient}, asset : {Mint},
     amountOfAsset : {UInt(AmountInCents), TwoToThe(64)},
     signatureExpirationTime : {UInt(Expiration), MaxUInt64},
     coordinatorSignatureSalt : {Bytes(32, 3), Bytes(32, 1), Bytes(33, 3)},
     salt : {Bytes(32, 1), Bytes(32, 2), Bytes(31, 1)},
     nonce : {UInt(0), MaxUInt32, TwoToThe(32)},
     verifyingContract : {CoordinatorAddress, Collateral}]

\* The withdrawRequest executeWithdrawal makes of the field values.
WithdrawOf(values) ==
    [amountOfAsset |-> values.amountOfAsset,
     signatureExpirationTime |-> values.signatureExpirationTime,
     coordinatorSignatureSalt |-> values.coordinatorSignatureSalt]

\* What one invocation asks of the codec, with the values it was given: the
\* record address and the two final digests.  None of the three calls throws.
CodecCall(values) ==
    [fieldValues |-> values,
     error |-> "none",
     address |-> GenerateWithdrawCollateralPDA(Collateral, values.sender,
                     values.receiver, values.asset, WithdrawOf(values), values.nonce,
                     ProgramId),
     collateralMessage |-> CollateralGetWithdrawMessage(Collateral, values.sender,
                     values.receiver, values.asset, WithdrawOf(values), values.salt,
                     values.nonce),
     coordinatorMessage |-> CoordinatorGetWithdrawMessage(Collateral,
                     values.verifyingContract, values.sender, values.receiver,
                     values.asset, WithdrawOf(values), values.nonce)]

InitCodec ==
    /\ fieldValues \in FieldValueSets
    /\ digests = <<>>
    /\ signatures = <<>>
    /\ built = NotBuilt
    /\ NoInvocation

\* One invocation's calls of generateWithdrawCollateralPDA,
\* Collateral.getWithdrawMessage and Coordinator.getWithdrawMessage.
\* An invocation given the very values of an earlier one is not followed.
GetWithdrawMessages ==
    /\ Len(digests) < MaxCalls
    /\ \A i \in DOMAIN digests : digests[i].fieldValues # fieldValues
    /\ digests' = Append(digests, CodecCall(fieldValues))
    /\ UNCHANGED <<fieldValues, signatureData, ledgerVars, callerVars, builderVars>>

\* The next invocation for the same withdrawal: randomBytes(32) gives another
\* custody salt, and the signing service may have issued another coordinator
\* salt and expiry.
NextInvocation ==
    /\ digests # <<>>
    /\ digests[Len(digests)].fieldValues = fieldValues
    /\ Len(digests) < MaxCalls
    /\ \E salt \in {Bytes(32, 1), Bytes(32, 2)},
          coordinatorSalt \in {Bytes(32, 3), Bytes(32, 1)},
          expiresAt \in {UInt(Expiration), MaxUInt64} :
           fieldValues' = [fieldValues EXCEPT !.salt = salt,
                               !.coordinatorSignatureSalt = coordinatorSalt,
                               !.signatureExpirationTime = expiresAt]
    /\ UNCHANGED <<digests, signatureData, ledgerVars, callerVars, builderVars>>

NextCodec == GetWithdrawMessages \/ NextInvocation

SpecCodec == InitCodec /\ [][NextCodec]_vars

\* ----------------------------------------------------------------- claims
\* Indices of the transactions of a kind that caller p handed to the transport.
TxsOfKind(p, kind) == {i \in DOMAIN submitted[p] : submitted[p][i].kind = kind}

\* Indices of the network calls of a step that caller p made.
CallsOf(p, step) == {i \in DOMAIN calls[p] : calls[p][i].step = step}

\* fetchNullable returned a record that lists the sender.
SawSenderListed(p) ==
    /\ collateralSignatureAccount[p].fetched
    /\ collateralSignatureAccount[p].exists
    /\ Sender \in collateralSignatureAccount[p].signers

\* C1: an invocation that fetched a record listing the sender submits no
\* submitSignatures transaction; the call that follows the record query is
\* the coordinator fetch, and the record address it carries on with (into the
\* withdrawal instruction) is the address it queried.
C1_Idempotent ==
    \A p \in Callers :
        SawSenderListed(p) =>
            /\ TxsOfKind(p, "submitSignatures") = {}
            /\ pc[p] \in {"fetchCoordinator", "sendWithdrawal", "confirmed", "failed"}
            /\ \A i \in CallsOf(p, "fetchSignatures") :
                   /\ i < Len(calls[p]) => calls[p][i + 1].step = "fetchCoordinator"
                   /\ pc[p] # "fetchCoordinator" => i < Len(calls[p])
            /\ collateralSignatureAddress[p] = AddressOf(collateralAccount[p].adminFundsNonce)
            /\ \A i \in TxsOfKind(p, "withdraw") :
                   \A j \in DOMAIN submitted[p][i].instructions :
                       submitted[p][i].instructions[j].name = "withdrawCollateralAsset"
                       => submitted[p][i].instructions[j].recordAddress
                              = {collateralSignatureAddress[p]}

C1_Witness ==
    \E p \in Callers : SawSenderListed(p) /\ pc[p] = "confirmed"

\* C2: a caller has handed the combined withdrawal transaction to the
\* transport only if it saw the sender listed in the record or one of its own
\* submitSignatures transactions, sent before, was confirmed.
C2_ApprovalBeforeWithdrawal ==
    \A p \in Callers :
        \A i \in TxsOfKind(p, "withdraw") :
            \/ SawSenderListed(p)
            \/ \E j \in TxsOfKind(p, "submitSignatures") :
                   j < i /\ submitted[p][j].outcome = "confirmed"

C2_Witness ==
    \E p, q \in Callers :
        /\ p # q
        /\ TxsOfKind(p, "withdraw") # {} /\ TxsOfKind(q, "withdraw") # {}
        /\ TxsOfKind(p, "submitSignatures") # {} /\ TxsOfKind(q, "submitSignatures") # {}

\* C3: a caller whose submitSignatures transaction was rejected because the
\* approval already exists does not end in failure.
C3_DuplicateIgnored ==
    \A p \in Callers :
        (\E i \in TxsOfKind(p, "submitSignatures") :
             submitted[p][i].outcome = "DuplicateApproval")
        => pc[p] # "failed"

\* C4: a submitSignatures or withdrawal transaction that failed in the
\* transport ends the invocation in failure with that error; it is the last
\* transaction the invocation sent and the only one of its kind.
C4_TransportFailureSurfaced ==
    \A p \in Callers :
        \A i \in DOMAIN submitted[p] :
            (/\ submitted[p][i].kind \in {"submitSignatures", "withdraw"}
             /\ submitted[p][i].outcome = "TransportFailure")
            => /\ pc[p] = "failed"
               /\ error[p] = submitted[p][i].outcome
               /\ i = Len(submitted[p])
               /\ Cardinality(TxsOfKind(p, submitted[p][i].kind)) = 1
               /\ submitted[p][i].kind = "submitSignatures"
                      => TxsOfKind(p, "withdraw") = {}

C4_Witness ==
    \E p, q \in Callers :
        /\ \E i \in TxsOfKind(p, "submitSignatures") :
               submitted[p][i].outcome = "TransportFailure"
        /\ \E i \in TxsOfKind(q, "withdraw") :
               submitted[q][i].outcome = "TransportFailure"

\* C5: an invocation that fails with an encoding or framing error has made no
\* network call and submitted no transaction.
C5_FramingErrorBeforeNetwork ==
    \A p \in Callers :
        error[p] \in {"SignatureSize", "MessageSize"}
        => calls[p] = <<>> /\ submitted[p] = <<>>

\* The place of a network call in the order of the flow.
StepRank(step) ==
    CASE step = "fetchCollateral" -> 1
      [] step \in {"getTokenAccount", "createTokenAccount"} -> 2
      [] step = "fetchSignatures" -> 3
      [] step = "submitSignatures" -> 4
      [] step = "fetchCoordinator" -> 5
      [] step = "sendWithdrawal" -> 6

\* The calls of p are in the order of the flow, each step at most once, and
\* a call that failed is the last one.
OrderedCalls(p) ==
    /\ \A i, j \in DOMAIN calls[p] :
           i < j => StepRank(calls[p][i].step) < StepRank(calls[p][j].step)
    /\ \A i \in DOMAIN calls[p] : i < Len(calls[p]) => calls[p][i].ok
    /\ CallsOf(p, "submitSignatures") # {} => CallsOf(p, "fetchSignatures") # {}
    /\ CallsOf(p, "fetchCoordinator") # {} => CallsOf(p, "fetchSignatures") # {}
    /\ CallsOf(p, "sendWithdrawal") # {} => CallsOf(p, "fetchCoordinator") # {}
    /\ pc[p] = "confirmed" =>
           /\ \A i \in DOMAIN calls[p] : calls[p][i].ok
           /\ calls[p][Len(calls[p])].step = "sendWithdrawal"
    /\ (pc[p] = "failed" /\ error[p] = "TransportFailure") =>
           ~calls[p][Len(calls[p])].ok

\* C6: every invocation makes its calls in the order record check, optional
\* approval, coordinator fetch, withdrawal; a failed step is the last one;
\* the invocation is confirmed only if every call succeeded; and once it has
\* failed or is confirmed it makes no further call.
C6_StepOrder ==
    /\ [](\A p \in Callers : OrderedCalls(p))
    /\ [][\A p \in Callers :
              pc[p] \in {"failed", "confirmed"}
              => /\ pc'[p] = pc[p]
                 /\ calls'[p] = calls[p]
                 /\ submitted'[p] = submitted[p]]_vars

C6_Witness ==
    \E p, q \in Callers :
        /\ pc[p] = "confirmed" /\ CallsOf(p, "submitSignatures") # {}
        /\ pc[q] = "failed" /\ CallsOf(q, "fetchCoordinator") # {}

\* C7: an invocation that fetched a coordinator whose approver list is
\* missing or empty has failed with the no-approver error after the record
\* check, has sent no withdrawal transaction, and an approval it had
\* confirmed is still in the record.
C7_NoApprover ==
    \A p \in Callers :
        (coordinator[p].fetched
         /\ (~coordinator[p].hasExecutors \/ coordinator[p].executors = <<>>))
        => /\ pc[p] = "failed"
           /\ error[p] = "NoExecutors"
           /\ TxsOfKind(p, "withdraw") = {}
           /\ \E i \in CallsOf(p, "fetchSignatures") : calls[p][i].ok
           /\ \A i \in TxsOfKind(p, "submitSignatures") :
                  submitted[p][i].outcome = "confirmed"
                  => Sender \in signatureAccounts[collateralSignatureAddress[p]].signers

C7_Witness ==
    \E p \in Callers :
        /\ error[p] = "NoExecutors"
        /\ coordinator[p].hasExecutors
        /\ \E i \in TxsOfKind(p, "submitSignatures") :
               submitted[p][i].outcome = "confirmed"

\* The coordinator final digests of the request, one per nonce.
CoordinatorDigests == {CoordinatorMessages[n] : n \in Nonces}

\* The instruction verifies a signature over a coordinator digest.
IsCoordinatorVerification(ix) ==
    /\ ix.programId = "Ed25519SigVerify"
    /\ \E k \in DOMAIN ix.entries : ix.entries[k].message.digest \in CoordinatorDigests

\* C8: in every transaction handed to the transport, a withdrawal
\* instruction is preceded by the coordinator verification instruction, and
\* the coordinator verification instruction is followed by the withdrawal.
C8_AtomicCombined ==
    \A p \in Callers :
        \A i \in DOMAIN submitted[p] :
            LET ixs == submitted[p][i].instructions
            IN  /\ \A j \in DOMAIN ixs :
                       ixs[j].name = "withdrawCollateralAsset"
                       => \E k \in DOMAIN ixs : k < j /\ IsCoordinatorVerification(ixs[k])
                /\ \A k \in DOMAIN ixs :
                       IsCoordinatorVerification(ixs[k])
                       => \E j \in DOMAIN ixs :
                              k < j /\ ixs[j].name = "withdrawCollateralAsset"

C8_Witness ==
    \E p \in Callers :
        \E i \in TxsOfKind(p, "withdraw") : submitted[p][i].outcome = "confirmed"

\* The bytes of buffer at offsets offset .. offset + len - 1.
Slice(buffer, offset, len) == [k \in 1..len |-> buffer[offset + k]]

\* The little-endian 16-bit value at offset.
ReadUInt16LE(buffer, offset) == buffer[offset + 1] + 256 * buffer[offset + 2]

\* Entry i of the blob, read as the verification program reads it: the
\* descriptor at 2 + i * 14, then the bytes at the offsets it names.
DecodeEntry(data, i) ==
    LET at == 2 + i * 14
    IN  [signer |-> Slice(data, ReadUInt16LE(data, at + 4), 32),
         signature |-> Slice(data, ReadUInt16LE(data, at), 64),
         message |-> Slice(data, ReadUInt16LE(data, at + 8), ReadUInt16LE(data, at + 10))]

\* C9: when createSignatureVerificationInstruction rejects a list, it has
\* written no descriptor and no data byte of any entry: the buffer beyond
\* its two header bytes is as allocated.
C9_NoPartialWrite ==
    (built.called /\ built.threw)
    => \A k \in 3..Len(built.data) : built.data[k] = 0

\* C10: for a list of valid entries, byte 0 of the blob is the number of
\* entries and decoding entry i by its descriptor gives back the key, the
\* signature and the message of input entry i.
C10_RoundTrip ==
    (built.called /\ ~built.threw /\ Len(signatures) >= 1)
    => /\ built.data[1] = Len(signatures)
       /\ \A i \in 0..(Len(signatures) - 1) :
              DecodeEntry(built.data, i) = signatures[i + 1]

C10_Witness ==
    /\ built.called /\ ~built.threw
    /\ Len(signatures) = MaxEntries
    /\ signatures[1].signer # signatures[2].signer

\* C11: a list of more than 255 entries is rejected, and a blob that is
\* returned has the size of its list and the number of entries of the list in
\* its byte 0 (the count never wraps around).
C11_EntryCountCap ==
    built.called
    => /\ Len(signatures) > 255 => built.threw
       /\ ~built.threw
          => /\ Len(built.data) = Len(signatures) * 142 + 2
             /\ built.data[1] = Len(signatures)

C11_Witness ==
    /\ built.called /\ built.threw /\ built.error = "RangeError"
    /\ Len(signatures) = 256

\* The struct hashes and final digests of the two kinds for the values of a call.
CollateralStructHash(values) ==
    CollateralEncodeWithdrawMessage(Collateral, values.sender, values.receiver,
                                    values.asset, WithdrawOf(values), values.nonce)

CoordinatorStructHash(values) ==
    CoordinatorEncodeWithdrawMessage(Collateral, values.sender, values.receiver,
                                     values.asset, WithdrawOf(values), values.nonce)

\* The two kinds were given the same verifying entity and the same salt.
SameFieldValues(values) ==
    /\ values.verifyingContract = Collateral
    /\ values.salt = values.coordinatorSignatureSalt

\* C12: no custody final digest returned by any call equals a coordinator
\* final digest returned by any call, whatever field values either was given
\* (the same ones included), and the two struct hashes of a call differ.
C12_TypeHashSeparation ==
    /\ \A i \in DOMAIN digests : \A j \in DOMAIN digests :
           digests[i].collateralMessage # digests[j].coordinatorMessage
    /\ \A i \in DOMAIN digests :
           CollateralStructHash(digests[i].fieldValues)
               # CoordinatorStructHash(digests[i].fieldValues)

C12_Witness ==
    \E i \in DOMAIN digests :
        /\ SameFieldValues(digests[i].fieldValues)
        /\ digests[i].collateralMessage # digests[i].coordinatorMessage

\* C14: the final digest of either kind is the hash of 0x1901, the domain
\* separator of that kind's name with version "2" and chain id 900, and the
\* struct hash; and for the same version, chain id, verifying entity and
\* salt the domain separator of name "Collateral" differs from the one of
\* name "Coordinator".
C14_DomainSeparation ==
    \A i \in DOMAIN digests :
        LET values == digests[i].fieldValues
        IN  /\ digests[i].collateralMessage =
                   Keccak256Hex(CollateralEncode
                       \o CollateralDomainSeparatorEncode("Collateral", "2", UInt(900),
                              Collateral, values.salt)
                       \o CollateralStructHash(values))
            /\ digests[i].coordinatorMessage =
                   Keccak256Hex(CoordinatorEncode
                       \o CoordinatorDomainSeparatorEncode("Coordinator", "2", UInt(900),
                              values.verifyingContract, values.coordinatorSignatureSalt)
                       \o CoordinatorStructHash(values))
            /\ \A salt \in {values.salt, values.coordinatorSignatureSalt} :
                   /\ CollateralDomainSeparatorEncode("Collateral", "2", UInt(900),
                          values.verifyingContract, salt)
                      # CollateralDomainSeparatorEncode("Coordinator", "2", UInt(900),
                          values.verifyingContract, salt)
                   /\ CoordinatorDomainSeparatorEncode("Collateral", "2", UInt(900),
                          values.verifyingContract, salt)
                      # CoordinatorDomainSeparatorEncode("Coordinator", "2", UInt(900),
                          values.verifyingContract, salt)

C14_Witness ==
    \E i \in DOMAIN digests :
        LET values == digests[i].fieldValues
        IN  /\ SameFieldValues(values)
            /\ CollateralDomainSeparatorEncode("Collateral", "2", UInt(900),
                   Collateral, values.salt)
               # CoordinatorDomainSeparatorEncode("Coordinator", "2", UInt(900),
                   values.verifyingContract, values.coordinatorSignatureSalt)

\* C15: for the amount, nonce and expiry of every call, a value that fits
\* the width is encoded in exactly 16 (8 for the nonce) hex characters, and a
\* call given a value that does not fit is rejected with EncodingOverflow.
C15_FixedWidth ==
    \A i \in DOMAIN digests :
        LET values == digests[i].fieldValues
        IN  /\ FitsIn(values.nonce, 32) => Len(EncodeUInt32(values.nonce)) = 8
            /\ FitsIn(values.amountOfAsset, 64)
               => Len(EncodeUInt64(values.amountOfAsset)) = 16
            /\ FitsIn(values.signatureExpirationTime, 64)
               => Len(EncodeUInt64(values.signatureExpirationTime)) = 16
            /\ (\/ ~FitsIn(values.nonce, 32)
                \/ ~FitsIn(values.amountOfAsset, 64)
                \/ ~FitsIn(values.signatureExpirationTime, 64))
               => digests[i].error = "EncodingOverflow"

\* A salt that is not 32 bytes long, or a number too wide for its field.
InvalidFields(values) ==
    \/ Len(values.salt) # 32
    \/ Len(values.coordinatorSignatureSalt) # 32
    \/ ~FitsIn(values.nonce, 32)
    \/ ~FitsIn(values.amountOfAsset, 64)
    \/ ~FitsIn(values.signatureExpirationTime, 64)

\* C16: a call given a salt that is not 32 bytes long or an oversized number
\* fails with InvalidFieldEncoding and returns no digest.
C16_ValidatedBeforeHash ==
    \A i \in DOMAIN digests :
        InvalidFields(digests[i].fieldValues)
        => /\ digests[i].error = "InvalidFieldEncoding"
           /\ digests[i].collateralMessage = ""
           /\ digests[i].coordinatorMessage = ""

\* What the record address is derived from.
AddressFields(values) ==
    <<values.sender, values.asset, values.amountOfAsset, values.receiver, values.nonce>>

\* C17: the record address of a call is the program address of the seed, the
\* collateral account and the custody struct hash, and two calls given the
\* same sender, asset, amount, recipient and nonce return the same address
\* whatever custody salt, coordinator salt and expiry each was given.
C17_ContentAddressed ==
    /\ \A i \in DOMAIN digests :
           digests[i].address =
               GenerateAdminSignaturePDA(Collateral,
                   CollateralStructHash(digests[i].fieldValues), ProgramId)
    /\ \A i \in DOMAIN digests : \A j \in DOMAIN digests :
           AddressFields(digests[i].fieldValues) = AddressFields(digests[j].fieldValues)
           => digests[i].address = digests[j].address

C17_Witness ==
    \E i \in DOMAIN digests : \E j \in DOMAIN digests :
        /\ digests[i].fieldValues.salt # digests[j].fieldValues.salt
        /\ digests[i].fieldValues.coordinatorSignatureSalt
               # digests[j].fieldValues.coordinatorSignatureSalt
        /\ digests[i].fieldValues.signatureExpirationTime
               # digests[j].fieldValues.signatureExpirationTime
        /\ digests[i].collateralMessage # digests[j].collateralMessage
        /\ digests[i].address = digests[j].address

\* For every number of entries a count byte can hold, the offsets of every
\* descriptor fit 16 bits, the descriptors end where the data region starts
\* and the data blocks follow one another to the end of the blob.
OffsetsFit ==
    \A n \in 1..255 : \A i \in 0..(n - 1) :
        LET structure == SignatureStructure(i, n * 14 + 2)
        IN  /\ structure.structureOffset + 14 <= n * 14 + 2
            /\ structure.publicKeyOffset = n * 14 + 2 + i * 128
            /\ structure.messageOffset + 32 = n * 14 + 2 + (i + 1) * 128
            /\ structure.messageOffset + 32 <= n * 142 + 2
            /\ structure.messageOffset < 65536

\* C18: the blob of N valid entries is N * 142 + 2 bytes long with N in byte
\* 0; descriptor i, at 2 + i * 14, holds signatureOffset, 0xFFFF,
\* publicKeyOffset, 0xFFFF, messageOffset, 32, 0xFFFF as little-endian 16-bit
\* values, with publicKeyOffset = N * 14 + 2 + i * 128, signatureOffset 32
\* further and messageOffset 64 further; the key, signature and message of
\* entry i lie at these offsets, so that nothing overlaps; and all offsets
\* fit 16 bits up to 255 entries.
C18_BlobLayout ==
    /\ OffsetsFit
    /\ (built.called /\ ~built.threw)
       => LET n == Len(signatures)
          IN  /\ Len(built.data) = n * 142 + 2
              /\ built.data[1] = n
              /\ built.data[2] = 0
              /\ \A i \in 0..(n - 1) :
                     LET at == 2 + i * 14
                         publicKeyOffset == i * 128 + n * 14 + 2
                     IN  /\ ReadUInt16LE(built.data, at) = publicKeyOffset + 32
                         /\ ReadUInt16LE(built.data, at + 2) = 65535
                         /\ ReadUInt16LE(built.data, at + 4) = publicKeyOffset
                         /\ ReadUInt16LE(built.data, at + 6) = 65535
                         /\ ReadUInt16LE(built.data, at + 8) = publicKeyOffset + 32 + 64
                         /\ ReadUInt16LE(built.data, at + 10) = 32
                         /\ ReadUInt16LE(built.data, at + 12) = 65535
                         /\ Slice(built.data, publicKeyOffset, 32) = signatures[i + 1].signer
                         /\ Slice(built.data, publicKeyOffset + 32, 64)
                                = signatures[i + 1].signature
                         /\ Slice(built.data, publicKeyOffset + 96, 32)
                                = signatures[i + 1].message

C18_Witness ==
    /\ built.called /\ ~built.threw
    /\ Len(signatures) = MaxEntries
    /\ ReadUInt16LE(built.data, 2 + 14 + 4) = 128 + MaxEntries * 14 + 2

\* The custody final digest of the request for the salt and nonce an
\* approval instruction carries.
DigestOfApproval(ix, nonce) == CollateralMessages[ix.args[1], nonce]

\* C19: every submitSignatures transaction is signed by the sender and holds
\* two instructions: a verification instruction with the single entry
\* (sender, the sender's signature over the custody final digest, that
\* digest), then the approval instruction, which names the sender, the
\* derived record address and the very salt the digest was computed with.  A
\* caller that found the record absent or without the sender and went on has
\* submitted exactly one such transaction, and any call it made after
\* submitting came after the confirmation.
C19_ApprovalSubmission ==
    \A p \in Callers :
        /\ \A i \in TxsOfKind(p, "submitSignatures") :
               LET tx == submitted[p][i]
                   digest == DigestOfApproval(tx.instructions[2],
                                              collateralAccount[p].adminFundsNonce)
               IN  /\ tx.signers = <<Sender>>
                   /\ Len(tx.instructions) = 2
                   /\ tx.instructions[1].programId = "Ed25519SigVerify"
                   /\ tx.instructions[1].entries =
                          <<[signer |-> Sender,
                             signature |-> SignDetached(digest, Sender),
                             message |-> DigestBuffer(digest)]>>
                   /\ tx.instructions[2].name = "submitSignatures"
                   /\ Sender \in tx.instructions[2].accounts
                   /\ tx.instructions[2].recordAddress = {collateralSignatureAddress[p]}
                   /\ tx.instructions[2].args[1] = collateralMessageSalt[p]
        /\ Cardinality(TxsOfKind(p, "submitSignatures")) <= 1
        /\ (/\ collateralSignatureAccount[p].fetched
            /\ ~SawSenderListed(p)
            /\ pc[p] \in {"fetchCoordinator", "sendWithdrawal", "confirmed"})
           => \E i \in TxsOfKind(p, "submitSignatures") :
                  submitted[p][i].outcome = "confirmed"
        /\ \A k \in CallsOf(p, "submitSignatures") :
               k < Len(calls[p]) => calls[p][k].ok

C19_Witness ==
    \E p \in Callers :
        /\ collateralSignatureAccount[p].fetched
        /\ ~SawSenderListed(p)
        /\ pc[p] = "fetchCoordinator"
        /\ \E i \in TxsOfKind(p, "submitSignatures") :
               submitted[p][i].instructions[2].args[1] = "saltB"

\* C20: every transaction a caller submitted before the combined withdrawal
\* transaction is a submitSignatures transaction, and a caller that saw the
\* sender listed submitted none.
C20_SoleProactiveMutation ==
    \A p \in Callers :
        /\ \A i \in DOMAIN submitted[p] :
               submitted[p][i].kind \in {"submitSignatures", "withdraw"}
        /\ SawSenderListed(p)
           => \A i \in DOMAIN submitted[p] : submitted[p][i].kind = "withdraw"

\* The place of a transaction kind in an invocation.
KindRank(kind) ==
    CASE kind = "createTokenAccount" -> 1
      [] kind = "submitSignatures" -> 2
      [] OTHER -> 3

\* C20, amended: the transactions a caller submits are, in this order, at
\* most one creation of the recipient's token account, at most one
\* submitSignatures transaction and at most one combined withdrawal
\* transaction; the token account is created at most once by all callers
\* together, when it did not exist; and a caller that saw the sender listed
\* and found the token account existing submitted nothing before the combined
\* withdrawal transaction.
C20_ProactiveMutations ==
    /\ \A p \in Callers :
           /\ \A i \in DOMAIN submitted[p] : \A j \in DOMAIN submitted[p] :
                  i < j => KindRank(submitted[p][i].kind) < KindRank(submitted[p][j].kind)
           /\ \A i \in DOMAIN submitted[p] :
                  submitted[p][i].kind
                      \in {"createTokenAccount", "submitSignatures", "withdraw"}
           /\ SawSenderListed(p) => TxsOfKind(p, "submitSignatures") = {}
           /\ (SawSenderListed(p) /\ CallsOf(p, "getTokenAccount") # {})
              => \A i \in DOMAIN submitted[p] : submitted[p][i].kind = "withdraw"
    /\ \A p \in Callers : \A q \in Callers :
           (TxsOfKind(p, "createTokenAccount") # {}
                /\ TxsOfKind(q, "createTokenAccount") # {})
           => p = q
    /\ (\E p \in Callers : TxsOfKind(p, "createTokenAccount") # {}) => tokenAccountExists

C20_Witness ==
    \E p \in Callers :
        /\ Len(submitted[p]) = 3
        /\ submitted[p][1].kind = "createTokenAccount"
        /\ submitted[p][2].kind = "submitSignatures"
        /\ submitted[p][3].kind = "withdraw"

\* C21: the coordinator verification entry of every combined withdrawal
\* transaction names the first approver of the list the caller fetched and
\* carries the supplied signature as it came, whichever key made it.
C21_FirstApproverUnchecked ==
    \A p \in Callers :
        \A i \in TxsOfKind(p, "withdraw") :
            LET entries == submitted[p][i].instructions[1].entries
            IN  /\ Len(entries) = 1
                /\ coordinator[p].executors # <<>>
                /\ entries[1].signer = coordinator[p].executors[1]
                /\ entries[1].signature = signatureData

\* A combined transaction was handed to the transport, and confirmed, whose
\* entry names an approver other than the key that made the signature.
C21_Witness ==
    \E p \in Callers :
        \E i \in TxsOfKind(p, "withdraw") :
            LET entry == submitted[p][i].instructions[1].entries[1]
            IN  /\ entry.signer # entry.signature.signedBy
                /\ entry.signer = Executor2
                /\ submitted[p][i].outcome = "confirmed"

\* C22: a caller fetches the collateral account once, and the nonce it read
\* is the nonce of the record address it derived, of the custody digest it
\* signed, of the target nonce of its approval instruction and of the
\* coordinator digest, whatever the ledger's nonce has become; and its
\* withdrawal instruction names the record address it queried, which is also
\* the one its approval instruction wrote.
C22_SingleNonce ==
    \A p \in Callers :
        LET nonce == collateralAccount[p].adminFundsNonce
        IN  /\ Cardinality(CallsOf(p, "fetchCollateral")) <= 1
            /\ collateralSignatureAccount[p].fetched
               => collateralSignatureAddress[p] = RecordAddresses[nonce]
            /\ \A i \in TxsOfKind(p, "submitSignatures") :
                   LET tx == submitted[p][i]
                   IN  /\ tx.instructions[1].entries[1].message
                              = DigestBuffer(CollateralMessages[tx.instructions[2].args[1],
                                                                nonce])
                       /\ tx.instructions[2].args[2] = ToString(nonce)
                       /\ tx.instructions[2].recordAddress = {RecordAddresses[nonce]}
            /\ \A i \in TxsOfKind(p, "withdraw") :
                   LET tx == submitted[p][i]
                   IN  /\ tx.instructions[1].entries[1].message
                              = DigestBuffer(CoordinatorMessages[nonce])
                       /\ tx.instructions[2].recordAddress = {collateralSignatureAddress[p]}
                       /\ tx.instructions[2].recordAddress = {RecordAddresses[nonce]}

C22_Witness ==
    \E p \in Callers :
        /\ TxsOfKind(p, "submitSignatures") # {}
        /\ TxsOfKind(p, "withdraw") # {}
        /\ adminFundsNonce # collateralAccount[p].adminFundsNonce

\* An invocation has returned the transaction identifier or thrown.
Terminated(p) == pc[p] \in {"confirmed", "failed"}

\* C23: when every awaited network call returns, every invocation made ends
\* confirmed or failed; on the way it makes each call of the flow at most
\* once, submits at most one approval and at most one combined withdrawal
\* transaction, and once ended it does nothing more.
C23_Termination ==
    /\ <>(\A p \in InFlight : Terminated(p))
    /\ [](\A p \in InFlight :
              /\ Cardinality(TxsOfKind(p, "submitSignatures")) <= 1
              /\ Cardinality(TxsOfKind(p, "withdraw")) <= 1
              /\ \A i, j \in DOMAIN calls[p] :
                     calls[p][i].step = calls[p][j].step => i = j
              /\ Terminated(p) => ~ENABLED Invocation(p))

C23_Witness ==
    /\ \A p \in InFlight : Terminated(p)
    /\ \E p \in InFlight :
           /\ pc[p] = "confirmed"
           /\ Cardinality(TxsOfKind(p, "submitSignatures")) = 1
           /\ Cardinality(TxsOfKind(p, "withdraw")) = 1
           /\ ~ENABLED Invocation(p)

====
